---- MODULE Spec2Model ----
(***************************************************************************)
(* Model of crizzle.services.base.service.Service: the abstract base of    *)
(* the authenticated HTTP API clients.  Strings and byte strings are       *)
(* sequences of one-character strings, Python dicts are functions from a   *)
(* finite set of keys, and an optional value (None or a value) is a record *)
(* with a tag.                                                             *)
(***************************************************************************)
EXTENDS Integers, Sequences, FiniteSets, TLC

VARIABLES name, root, key_loaded, api_key, secret_key, default_api_version,
          call

vars == <<name, root, key_loaded, api_key, secret_key, default_api_version,
          call>>

(***************************************************************************)
(* Bounds of the model.                                                    *)
(***************************************************************************)
MaxFileLen == 4     \* longest key file, in bytes
MaxVal == 2         \* parameter values are 1..MaxVal

(***************************************************************************)
(* Python values.                                                          *)
(***************************************************************************)
None == [tag |-> "None", val |-> <<>>]
Some(v) == [tag |-> "Some", val |-> v]
IsNone(o) == o.tag = "None"

EmptyDict == [k \in {} |-> 0]

\* dict.update: d after d.update(p)
DictUpdate(d, p) ==
    [k \in DOMAIN d \cup DOMAIN p |-> IF k \in DOMAIN p THEN p[k] ELSE d[k]]

LowerCase == <<"a","b","c","d","e","f","g","h","i","j","k","l","m",
               "n","o","p","q","r","s","t","u","v","w","x","y","z">>
UpperCase == <<"A","B","C","D","E","F","G","H","I","J","K","L","M",
               "N","O","P","Q","R","S","T","U","V","W","X","Y","Z">>

UpperChar(c) ==
    IF \E i \in 1..26 : LowerCase[i] = c
    THEN UpperCase[CHOOSE i \in 1..26 : LowerCase[i] = c]
    ELSE c

\* str.upper
Upper(s) == [i \in 1..Len(s) |-> UpperChar(s[i])]

\* "{}".format(v): the text of None is "None", a string stands for itself
Format(o) == IF IsNone(o) THEN <<"N","o","n","e">> ELSE o.val

\* bytes.strip: whitespace removed at both ends
Whitespace == {" ", "\t", "\n", "\r", "\f"}

RECURSIVE LStrip(_)
LStrip(s) ==
    IF s # <<>> /\ Head(s) \in Whitespace THEN LStrip(Tail(s)) ELSE s

RECURSIVE RStrip(_)
RStrip(s) ==
    IF s # <<>> /\ s[Len(s)] \in Whitespace
    THEN RStrip(SubSeq(s, 1, Len(s) - 1))
    ELSE s

Strip(s) == RStrip(LStrip(s))

\* file.readline at offset pos (0-based) of the bytes: the line read, with
\* its newline, and the offset after it; an empty line at end of file
ReadLine(bytes, pos) ==
    LET rest == SubSeq(bytes, pos + 1, Len(bytes))
        nl == {i \in 1..Len(rest) : rest[i] = "\n"}
        n == IF nl = {} THEN Len(rest)
             ELSE CHOOSE i \in nl : \A j \in nl : i <= j
    IN [line |-> SubSeq(rest, 1, n), pos |-> pos + n]

(***************************************************************************)
(* The client object.                                                      *)
(***************************************************************************)
Self == [name |-> name, root |-> root, key_loaded |-> key_loaded,
         api_key |-> api_key, secret_key |-> secret_key,
         default_api_version |-> default_api_version]

SetSelf(s) ==
    /\ name' = s.name
    /\ root' = s.root
    /\ key_loaded' = s.key_loaded
    /\ api_key' = s.api_key
    /\ secret_key' = s.secret_key
    /\ default_api_version' = s.default_api_version

\* Service.read_key_file: key_file is None, or the path of a file that
\* cannot be opened (tag "Missing"), or the path of a file with bytes val.
\* Gives the client after the call, the value returned and the exception
\* raised.
read_key_file(self, key_file) ==
    IF ~IsNone(key_file)
    THEN IF key_file.tag = "Missing"
         THEN [self |-> self, ret |-> <<None, None>>,
               raised |-> "FileNotFoundError"]
         ELSE LET l1 == ReadLine(key_file.val, 0)
                  l2 == ReadLine(key_file.val, l1.pos)
                  api == Strip(l1.line)
                  secret == Strip(l2.line)
              IN [self |-> [self EXCEPT !.key_loaded = TRUE],
                  ret |-> <<Some(api), Some(secret)>>,
                  raised |-> "none"]
    ELSE [self |-> self, ret |-> <<None, None>>, raised |-> "none"]

\* Service.__init__
init(nm, rt, key_file, dav) ==
    LET fresh == [name |-> nm, root |-> rt, key_loaded |-> FALSE,
                  api_key |-> None, secret_key |-> None,
                  default_api_version |-> dav]
    IN IF ~IsNone(key_file)
       THEN read_key_file(fresh, key_file).self
       ELSE fresh


\* Service.get_default_params of the base class: an empty dict.  A concrete
\* service overrides it; DefaultParamsResults below lists the dicts the
\* hook is taken to return.
get_default_params == EmptyDict

\* get_final_params with the merge the wrong way round: the defaults are
\* laid over the caller's params
get_final_params_defaults_win(default_params, kwargs) ==
    LET final_params ==
            IF "params" \in DOMAIN kwargs
            THEN LET params == kwargs["params"]
                 IN IF ~IsNone(params)
                    THEN DictUpdate(params.val, default_params)
                    ELSE default_params
            ELSE default_params
    IN [final_params |-> final_params, kwargs |-> kwargs]

\* get_final_params merging into the caller's dict instead of the dict of
\* the defaults
get_final_params_in_place(default_params, kwargs) ==
    LET final_params ==
            IF "params" \in DOMAIN kwargs
            THEN LET params == kwargs["params"]
                 IN IF ~IsNone(params)
                    THEN DictUpdate(default_params, params.val)
                    ELSE default_params
            ELSE default_params
    IN [final_params |-> final_params,
        kwargs |-> IF "params" \in DOMAIN kwargs /\ ~IsNone(kwargs["params"])
                   THEN [kwargs EXCEPT !["params"] = Some(final_params)]
                   ELSE kwargs]

\* Service.get_final_params.  default_params is the fresh dict returned by
\* self.get_default_params(**kwargs); kwargs is the keyword-argument bag, a
\* function whose domain holds "params" when the caller passed it.  Gives
\* the dict returned and the bag as the call leaves it: update() writes to
\* the dict of the defaults, not to kwargs["params"].
get_final_params(default_params, kwargs) ==
    LET final_params ==
            IF "params" \in DOMAIN kwargs
            THEN LET params == kwargs["params"]
                 IN IF ~IsNone(params)
                    THEN DictUpdate(default_params, params.val)
                    ELSE default_params
            ELSE default_params
    IN [final_params |-> final_params, kwargs |-> kwargs]

\* the version resolution writing the version of the call to the client
ResolveApiVersionStored(self, api_version) ==
    LET v == IF IsNone(api_version) THEN self.default_api_version
             ELSE api_version
    IN [self |-> [self EXCEPT !.default_api_version = v], api_version |-> v]

\* request(), lines 182-183: the version used in the URL
ResolveApiVersion(self, api_version) ==
    [self |-> self,
     api_version |-> IF IsNone(api_version) THEN self.default_api_version
                     ELSE api_version]

\* request(), line 186: the URL of the descriptor
BuildUrl(self, api_version, endpoint) ==
    self.root \o <<"/">> \o Format(api_version) \o <<"/">> \o endpoint

RequestTypes == {<<"g","e","t">>, <<"p","o","s","t">>, <<"p","u","t">>,
                 <<"d","e","l","e","t","e">>}

\* the method set without upper-casing it
SetMethodAsGiven(request, request_type) ==
    IF request_type \in RequestTypes
    THEN [request |-> [request EXCEPT !.method = Some(request_type)],
          logged |-> <<>>]
    ELSE [request |-> request,
          logged |-> <<"invalid request type">>]

\* request(), lines 192-196: the method of the descriptor is set when the
\* assertion holds; otherwise the failure is logged and the method stays
\* None
SetMethod(request, request_type) ==
    IF request_type \in RequestTypes
    THEN [request |-> [request EXCEPT !.method = Some(Upper(request_type))],
          logged |-> <<>>]
    ELSE [request |-> request,
          logged |-> <<"invalid request type">>]

\* The abstract hooks of the base class: their body is pass
sign_request(request) == request
add_api_key(request) == request

\* the hooks called in the other order
RunHooksKeyFirst(request, sign) ==
    LET keyed == add_api_key(request)
        signed == IF sign THEN sign_request(keyed) ELSE keyed
    IN [request |-> signed,
        events |-> <<"add_api_key">>
                   \o (IF sign THEN <<"sign_request">> ELSE <<>>)]

\* request(), lines 198-200: the hooks, with the calls made in order
RunHooks(request, sign) ==
    LET signed == IF sign THEN sign_request(request) ELSE request
        keyed == add_api_key(signed)
    IN [request |-> keyed,
        events |-> (IF sign THEN <<"sign_request">> ELSE <<>>)
                   \o <<"add_api_key">>]

\* Service.request up to session.send: the client and the caller's params
\* after the call, the descriptor handed to the transport, the hook and
\* transport calls in order, and what was logged as critical
request(self, request_type, endpoint, params, api_version, data, headers, sign, default_params) ==
    LET arguments == [k \in {"params"} |-> params]
        resolved == ResolveApiVersion(self, api_version)
        final == get_final_params(default_params, arguments)
        built == [method |-> None,
                  url |-> BuildUrl(resolved.self, resolved.api_version,
                                   endpoint),
                  params |-> final.final_params,
                  data |-> data, headers |-> headers]
        typed == SetMethod(built, request_type)
        hooked == RunHooks(typed.request, sign)
    IN [self |-> resolved.self,
        params |-> final.kwargs["params"],
        request |-> hooked.request,
        events |-> hooked.events \o <<"send">>,
        logged |-> typed.logged]

\* Service.get, post, put, delete
get(self, endpoint, params, api_version, data, headers, sign, default_params) ==
    request(self, <<"g","e","t">>, endpoint, params, api_version, data,
            headers, sign, default_params)

post(self, endpoint, params, api_version, data, headers, sign, default_params) ==
    request(self, <<"p","o","s","t">>, endpoint, params, api_version, data,
            headers, sign, default_params)

put(self, endpoint, params, api_version, data, headers, sign, default_params) ==
    request(self, <<"p","u","t">>, endpoint, params, api_version, data,
            headers, sign, default_params)

delete(self, endpoint, params, api_version, data, headers, sign, default_params) ==
    request(self, <<"d","e","l","e","t","e">>, endpoint, params,
            api_version, data, headers, sign, default_params)

(***************************************************************************)
(* Inputs.                                                                 *)
(***************************************************************************)
Names == {<<"x">>}
Roots == {<<"r">>, <<"s">>}
Endpoints == {<<"t">>, <<"o">>}
Versions == {None, Some(<<>>), Some(<<"v","1">>)}

FileAlphabet == {"A", "B", " ", "\n"}
FileBytes == UNION {[1..n -> FileAlphabet] : n \in 0..MaxFileLen}
KeyFiles == {None} \cup {Some(b) : b \in FileBytes}
KeyFileArgs == KeyFiles \cup {[tag |-> "Missing", val |-> <<>>]}

Keys == {"qty", "timestamp"}
Values == 1..MaxVal
Dicts == UNION {[ks -> Values] : ks \in SUBSET Keys}
Params == {None} \cup {Some(d) : d \in Dicts}

\* what the get_default_params of the client's class returns: the empty
\* dict of the base class, or the dict of an overriding class
DefaultParamsResults ==
    {get_default_params} \cup {[k \in ks |-> 1] : ks \in SUBSET Keys}

\* the keyword arguments of a direct get_final_params call
KwargsBags == {EmptyDict} \cup {[k \in {"params"} |-> p] : p \in Params}

\* request types passed to request() directly
DirectRequestTypes == {<<"g","e","t">>, <<"d","e","l","e","t","e">>,
                       <<"G","E","T">>, <<"P","u","t">>, <<"f","o","o">>}

Payloads == {None, Some([k \in {"body"} |-> 1])}

\* session.send either returns a response or raises
SendOutcomes == {"none", "TransportError"}

(***************************************************************************)
(* The state machine.                                                      *)
(***************************************************************************)
Init ==
    \E nm \in Names, rt \in Roots, key_file \in KeyFiles, dav \in Versions :
        LET self == init(nm, rt, key_file, dav)
        IN /\ name = self.name
           /\ root = self.root
           /\ key_loaded = self.key_loaded
           /\ api_key = self.api_key
           /\ secret_key = self.secret_key
           /\ default_api_version = self.default_api_version
           /\ call = [op |-> "init", key_file |-> key_file]

ReadKeyFile ==
    /\ call.op = "idle"
    /\ \E key_file \in KeyFileArgs :
        LET r == read_key_file(Self, key_file)
        IN /\ SetSelf(r.self)
           /\ call' = [op |-> "read_key_file", key_file |-> key_file,
                       ret |-> r.ret, raised |-> r.raised]

GetFinalParams ==
    /\ call.op = "idle"
    /\ \E kwargs \in KwargsBags, default_params \in DefaultParamsResults :
        LET r == get_final_params(default_params, kwargs)
        IN /\ call' = [op |-> "get_final_params", kwargs |-> kwargs,
                       default_params |-> default_params,
                       kwargs_after |-> r.kwargs, ret |-> r.final_params]
           /\ UNCHANGED <<name, root, key_loaded, api_key, secret_key,
                          default_api_version>>

\* the record of a request-family call with result r
RequestCall(entry, request_type, endpoint, params, api_version, data, headers, sign, default_params, r, raised) ==
    [op |-> "request", entry |-> entry, request_type |-> request_type,
     endpoint |-> endpoint, params |-> params, api_version |-> api_version,
     data |-> data, headers |-> headers, sign |-> sign,
     default_params |-> default_params, params_after |-> r.params,
     request |-> r.request, events |-> r.events, logged |-> r.logged,
     raised |-> raised]

Request ==
    /\ call.op = "idle"
    /\ \E request_type \in DirectRequestTypes, endpoint \in Endpoints,
          params \in Params, api_version \in Versions, data \in Payloads,
          headers \in Payloads,
          sign \in BOOLEAN, default_params \in DefaultParamsResults,
          raised \in SendOutcomes :
        LET r == request(Self, request_type, endpoint, params, api_version,
                         data, headers, sign, default_params)
        IN /\ SetSelf(r.self)
           /\ call' = RequestCall("request", request_type, endpoint, params,
                                  api_version, data, headers, sign,
                                  default_params, r, raised)

Get ==
    /\ call.op = "idle"
    /\ \E endpoint \in Endpoints,
          params \in Params, api_version \in Versions, data \in Payloads,
          headers \in Payloads,
          sign \in BOOLEAN, default_params \in DefaultParamsResults,
          raised \in SendOutcomes :
        LET r == get(Self, endpoint, params, api_version, data, headers,
                     sign, default_params)
        IN /\ SetSelf(r.self)
           /\ call' = RequestCall("get", <<"g","e","t">>, endpoint, params,
                                  api_version, data, headers, sign,
                                  default_params, r, raised)

Post ==
    /\ call.op = "idle"
    /\ \E endpoint \in Endpoints,
          params \in Params, api_version \in Versions, data \in Payloads,
          headers \in Payloads,
          sign \in BOOLEAN, default_params \in DefaultParamsResults,
          raised \in SendOutcomes :
        LET r == post(Self, endpoint, params, api_version, data, headers,
                      sign, default_params)
        IN /\ SetSelf(r.self)
           /\ call' = RequestCall("post", <<"p","o","s","t">>, endpoint,
                                  params, api_version, data, headers, sign,
                                  default_params, r, raised)

Put ==
    /\ call.op = "idle"
    /\ \E endpoint \in Endpoints,
          params \in Params, api_version \in Versions, data \in Payloads,
          headers \in Payloads,
          sign \in BOOLEAN, default_params \in DefaultParamsResults,
          raised \in SendOutcomes :
        LET r == put(Self, endpoint, params, api_version, data, headers,
                     sign, default_params)
        IN /\ SetSelf(r.self)
           /\ call' = RequestCall("put", <<"p","u","t">>, endpoint, params,
                                  api_version, data, headers, sign,
                                  default_params, r, raised)

Delete ==
    /\ call.op = "idle"
    /\ \E endpoint \in Endpoints,
          params \in Params, api_version \in Versions, data \in Payloads,
          headers \in Payloads,
          sign \in BOOLEAN, default_params \in DefaultParamsResults,
          raised \in SendOutcomes :
        LET r == delete(Self, endpoint, params, api_version, data, headers, sign, default_params)
        IN /\ SetSelf(r.self)
           /\ call' = RequestCall("delete", <<"d","e","l","e","t","e">>,
                                  endpoint, params, api_version, data, headers,
                                  sign, default_params, r, raised)

\* the call is over: control is back with the caller, which keeps neither
\* the descriptor nor the result
Return ==
    /\ call.op # "idle"
    /\ call' = [op |-> "idle"]
    /\ UNCHANGED <<name, root, key_loaded, api_key, secret_key,
                   default_api_version>>

Next ==
    \/ Return
    \/ ReadKeyFile
    \/ GetFinalParams
    \/ Request
    \/ Get
    \/ Post
    \/ Put
    \/ Delete

Spec == Init /\ [][Next]_vars

(***************************************************************************)
(* Properties.                                                             *)
(***************************************************************************)
IsRequest == call.op = "request"

\* the positions of event e in the events of the call
EventIndexes(e) == {i \in DOMAIN call.events : call.events[i] = e}

\* the verbs, lower case and upper case
VerbTable == {<<(<<"g","e","t">>), (<<"G","E","T">>)>>,
              <<(<<"p","o","s","t">>), (<<"P","O","S","T">>)>>,
              <<(<<"p","u","t">>), (<<"P","U","T">>)>>,
              <<(<<"d","e","l","e","t","e">>),
                (<<"D","E","L","E","T","E">>)>>}
LowerVerbs == {v[1] : v \in VerbTable}
UpperVerbs == {v[2] : v \in VerbTable}
VerbUpper(t) == (CHOOSE v \in VerbTable : v[1] = t)[2]

\* the number of lines of a file
LineCount(bytes) ==
    Cardinality({i \in DOMAIN bytes : bytes[i] = "\n"})
    + (IF bytes # <<>> /\ bytes[Len(bytes)] # "\n" THEN 1 ELSE 0)

\* the trimmed first and second line of a file
TrimmedLines(bytes) ==
    LET l1 == ReadLine(bytes, 0)
        l2 == ReadLine(bytes, l1.pos)
    IN <<Strip(l1.line), Strip(l2.line)>>

\* the caller's params of a call as a dict: empty when absent or None
CallerDict(kwargs) ==
    IF "params" \in DOMAIN kwargs /\ ~IsNone(kwargs["params"])
    THEN kwargs["params"].val
    ELSE EmptyDict

\* r is caller laid over defaults
IsOverlay(r, defaults, caller) ==
    /\ DOMAIN r = DOMAIN defaults \cup DOMAIN caller
    /\ \A k \in DOMAIN caller : r[k] = caller[k]
    /\ \A k \in DOMAIN defaults \ DOMAIN caller : r[k] = defaults[k]
    /\ (caller = EmptyDict => r = defaults)

\* C1: in every request call, sign_request is called once if sign and not
\* at all otherwise, then add_api_key once, then the transport once;
\* sign_request never follows add_api_key and no hook follows the
\* dispatch.
HooksThenDispatch ==
    IsRequest =>
        /\ Cardinality(EventIndexes("sign_request"))
              = (IF call.sign THEN 1 ELSE 0)
        /\ Cardinality(EventIndexes("add_api_key")) = 1
        /\ Cardinality(EventIndexes("send")) = 1
        /\ \A i \in EventIndexes("sign_request"),
              j \in EventIndexes("add_api_key") : i < j
        /\ \A i \in EventIndexes("sign_request")
                    \cup EventIndexes("add_api_key"),
              j \in EventIndexes("send") : i < j

SignedRequestDone ==
    /\ IsRequest
    /\ call.sign
    /\ call.events = <<"sign_request", "add_api_key", "send">>

\* C2: a request with a method that is none of get, post, put, delete fails
\* with InvalidMethod, and no hook is called and nothing is dispatched.
InvalidMethodFailsEarly ==
    (IsRequest /\ Upper(call.request_type) \notin UpperVerbs) =>
        /\ call.raised = "InvalidMethod"
        /\ call.events = <<>>

\* C3: the URL dispatched is root/version/endpoint, the version being the
\* api_version argument if given, else the default of the client if
\* configured, else the empty string.
UrlUsesResolvedVersion ==
    IsRequest =>
        LET version == IF ~IsNone(call.api_version) THEN call.api_version.val
                       ELSE IF ~IsNone(default_api_version)
                            THEN default_api_version.val
                            ELSE <<>>
        IN call.request.url
              = root \o <<"/">> \o version \o <<"/">> \o call.endpoint

\* C4: after loading a two-line key source, by a direct call or by the
\* constructor, key_loaded is true, the stored keys are the trimmed first
\* and second line, and the direct call returns that pair.
TwoLineKeysStored ==
    (/\ call.op \in {"init", "read_key_file"}
     /\ call.key_file.tag = "Some"
     /\ LineCount(call.key_file.val) = 2) =>
        LET lines == TrimmedLines(call.key_file.val)
        IN /\ key_loaded
           /\ api_key = Some(lines[1])
           /\ secret_key = Some(lines[2])
           /\ call.op = "read_key_file"
                 => call.ret = <<Some(lines[1]), Some(lines[2])>>

\* C5: loading a key source that is present and has zero or one line fails
\* with MalformedKeySource, does not set key_loaded and leaves the keys
\* unset.
ShortKeySourceRejected ==
    [][(/\ call'.op = "read_key_file"
        /\ call'.key_file.tag = "Some"
        /\ LineCount(call'.key_file.val) <= 1) =>
           /\ call'.raised = "MalformedKeySource"
           /\ key_loaded' = key_loaded
           /\ api_key' = None
           /\ secret_key' = None]_vars

\* C6: in every state key_loaded is true exactly when both stored keys are
\* non-empty byte strings.
KeyLoadedIffKeysStored ==
    key_loaded <=> (/\ api_key.tag = "Some" /\ api_key.val # <<>>
                    /\ secret_key.tag = "Some" /\ secret_key.val # <<>>)

\* C7: get_final_params returns the caller's params laid over the
\* defaults: the caller's value for each key of the caller, the default for
\* each key only in the defaults, no other key; the defaults themselves
\* when the caller's params are absent, None or empty.  The params of the
\* descriptor of a request are that result.
FinalParamsOverlay ==
    /\ call.op = "get_final_params" =>
          IsOverlay(call.ret, call.default_params, CallerDict(call.kwargs))
    /\ IsRequest =>
          IsOverlay(call.request.params, call.default_params,
                    IF IsNone(call.params) THEN EmptyDict
                    ELSE call.params.val)

OverlayWithCollision ==
    /\ call.op = "get_final_params"
    /\ \E k \in DOMAIN CallerDict(call.kwargs) \cap DOMAIN call.default_params :
          /\ CallerDict(call.kwargs)[k] # call.default_params[k]
          /\ call.ret[k] = CallerDict(call.kwargs)[k]
    /\ \E k \in DOMAIN call.default_params :
          /\ k \notin DOMAIN CallerDict(call.kwargs)
          /\ call.ret[k] = call.default_params[k]

\* C8 as stated: every method whose lower-cased form is a verb, in any
\* case, is accepted and dispatched as the upper-cased verb.
MethodAnyCaseAccepted ==
    (IsRequest /\ Upper(call.request_type) \in UpperVerbs) =>
        /\ call.logged = <<>>
        /\ call.request.method = Some(Upper(call.request_type))

\* C8 amended: every method that is exactly one of the lower-case verbs
\* get, post, put, delete, passed by a wrapper or to request directly, is
\* accepted and dispatched as the upper-cased verb.
LowerCaseMethodAccepted ==
    (IsRequest /\ call.request_type \in LowerVerbs) =>
        /\ call.logged = <<>>
        /\ call.request.method = Some(VerbUpper(call.request_type))

DirectDeleteDispatched ==
    /\ IsRequest
    /\ call.entry = "request"
    /\ call.request_type = <<"d","e","l","e","t","e">>
    /\ call.request.method = Some(<<"D","E","L","E","T","E">>)

\* C9: get_final_params, and request which calls it, leave the caller's
\* params mapping with the keys and values it had.
CallerParamsUntouched ==
    /\ call.op = "get_final_params" => call.kwargs_after = call.kwargs
    /\ IsRequest => call.params_after = call.params

RequestWithSharedAndMissingKeys ==
    /\ IsRequest
    /\ ~IsNone(call.params)
    /\ \E k \in DOMAIN call.default_params : k \notin DOMAIN call.params.val
    /\ \E k \in DOMAIN call.default_params :
          k \in DOMAIN call.params.val /\ call.params.val[k] # call.default_params[k]
    /\ call.params_after = call.params

\* C10: request, its wrappers and get_final_params change no field of the
\* client, and only read_key_file changes key_loaded or the stored keys.
OnlyLoadKeysChangesClient ==
    [][/\ call'.op \in {"request", "get_final_params"} =>
             UNCHANGED <<name, root, key_loaded, api_key, secret_key,
                         default_api_version>>
       /\ (\/ key_loaded' # key_loaded
           \/ api_key' # api_key
           \/ secret_key' # secret_key) => call'.op = "read_key_file"]_vars

RequestOnLoadedClient ==
    /\ IsRequest
    /\ key_loaded
    /\ ~IsNone(call.api_version)
    /\ call.api_version # default_api_version

====
